---- MODULE Spec2Model ----
(***************************************************************************)
(* Model of libImaging/Antialias.c: ImagingStretch, the one-axis           *)
(* resampling of an image with a separable filter.                         *)
(*                                                                         *)
(* Numbers.  The C code computes the filter weights in float/double and    *)
(* converts them to int.  Here a floating value is an exact rational       *)
(* <<n, d>> (d > 0, lowest terms); every float -> int conversion of the    *)
(* code (floor, ceil, the (int) cast) is computed as the code computes it. *)
(* sin() is the one function that has no rational value: it is modelled by *)
(* Bhaskara's rational approximation, kept on a 2^-12 grid.                *)
(***************************************************************************)
EXTENDS Integers, Sequences, FiniteSets

(* ------------------------------------------------------------------ *)
(* rational arithmetic standing for float / double arithmetic         *)
(* ------------------------------------------------------------------ *)

Abs(n) == IF n < 0 THEN -n ELSE n

\* f itself.  The comparison tabulates the function once, so that its defining
\* expression is not evaluated again at every application.
Stored(f) == IF f = f THEN f ELSE f

RECURSIVE GCD(_, _)
GCD(a, b) == IF b = 0 THEN a ELSE GCD(b, a % b)

Reduce(n, d, g) == <<n \div g, d \div g>>

Rat(n, d) == Reduce(n, d, GCD(Abs(n), d))

RInt(n) == <<n, 1>>

\* the value of a division by zero (inf or nan in C)
NotFinite == <<0, 0>>

IsFinite(a) == a[2] # 0

RNeg(a) == <<-a[1], a[2]>>

RAbs(a) == <<Abs(a[1]), a[2]>>

AddOver(a, b, g) ==
    Rat(a[1] * (b[2] \div g) + b[1] * (a[2] \div g), (a[2] \div g) * b[2])

RAdd(a, b) ==
    IF ~IsFinite(a) \/ ~IsFinite(b) THEN NotFinite ELSE AddOver(a, b, GCD(a[2], b[2]))

RSub(a, b) == RAdd(a, RNeg(b))

MulOver(a, b, g1, g2) ==
    Rat((a[1] \div g1) * (b[1] \div g2), (a[2] \div g2) * (b[2] \div g1))

RMul(a, b) ==
    IF ~IsFinite(a) \/ ~IsFinite(b) THEN NotFinite
    ELSE MulOver(a, b, GCD(Abs(a[1]), b[2]), GCD(Abs(b[1]), a[2]))

RDiv(a, b) ==
    IF ~IsFinite(a) \/ ~IsFinite(b) \/ b[1] = 0 THEN NotFinite
    ELSE RMul(a, IF b[1] < 0 THEN <<-b[2], -b[1]>> ELSE <<b[2], b[1]>>)

RLess(a, b) == a[1] * b[2] < b[1] * a[2]

RLeq(a, b) == a[1] * b[2] <= b[1] * a[2]

\* floor() and ceil() of <math.h>, followed by the (int) cast
Floor(a) == a[1] \div a[2]

Ceil(a) == -((-a[1]) \div a[2])

INT_MIN == -2147483647 - 1

INT_MAX == -(INT_MIN + 1)

RECURSIVE Pow2(_)
Pow2(n) == IF n = 0 THEN 1 ELSE 2 * Pow2(n - 1)

\* (int) (a * 2^bits): truncation toward zero, by long division one bit at a time.
\* A value that does not fit an int, or is not finite, converts to INT_MIN (the
\* "integer indefinite" value of the x86 conversion instructions).
RECURSIVE LongDiv(_, _, _, _)
LongDiv(q, r, d, bits) ==
    IF bits = 0 THEN q
    ELSE IF 2 * r >= d THEN LongDiv(2 * q + 1, 2 * r - d, d, bits - 1)
         ELSE LongDiv(2 * q, 2 * r, d, bits - 1)

ScaleTrunc(a, bits) ==
    IF ~IsFinite(a) \/ Abs(a[1]) \div a[2] >= Pow2(31 - bits) THEN INT_MIN
    ELSE IF a[1] < 0 THEN -LongDiv((-a[1]) \div a[2], (-a[1]) % a[2], a[2], bits)
    ELSE LongDiv(a[1] \div a[2], a[1] % a[2], a[2], bits)

(* ------------------------------------------------------------------ *)
(* resampling filters                                                 *)
(* ------------------------------------------------------------------ *)

Half == <<1, 2>>

\* M_PI of <math.h>, as the rational 355/113
M_PI == <<355, 113>>

\* a value of the sinc computation kept on the 2^-12 grid
Grid(a) == Rat(ScaleTrunc(a, 12), 4096)

\* 16 t (1 - t) / (5 - 4 t (1 - t)) for t = n/d in 0 .. 1: Bhaskara's approximation
\* of sin(pi * t)
Bhaskara(n, d) == Rat(16 * n * (d - n), 5 * d * d - 4 * n * (d - n))

\* sin(pi * u) for u >= 0: (-1)^floor(u) * sin(pi * (u - floor(u)))
SinTurns(u) ==
    IF Floor(u) % 2 = 0 THEN Bhaskara(u[1] % u[2], u[2])
    ELSE RNeg(Bhaskara(u[1] % u[2], u[2]))

\* sin(x) of <math.h>
Sin(x) ==
    IF x[1] < 0 THEN RNeg(SinTurns(RDiv(RAbs(x), M_PI))) ELSE SinTurns(RDiv(x, M_PI))

\* x = x * M_PI; return sin(x) / x
SincOf(xp) == Grid(RDiv(Sin(xp), xp))

sinc_filter(x) == IF x[1] = 0 THEN RInt(1) ELSE SincOf(RMul(x, M_PI))

antialias_filter(x) ==
    IF RLeq(RInt(-3), x) /\ RLess(x, RInt(3))
    THEN RMul(sinc_filter(x), sinc_filter(RDiv(x, RInt(3))))
    ELSE RInt(0)

nearest_filter(x) ==
    IF RLeq(RNeg(Half), x) /\ RLess(x, Half) THEN RInt(1) ELSE RInt(0)

\* bilinear_filter after  if (x < 0.0) x = -x
BilinearAbs(x) == IF RLess(x, RInt(1)) THEN RSub(RInt(1), x) ELSE RInt(0)

bilinear_filter(x) == BilinearAbs(RAbs(x))

\* #define a 0.0
BicubicA == 0

\* bicubic_filter after  if (x < 0.0) x = -x
BicubicAbs(x, a) ==
    IF RLess(x, RInt(1))
    THEN RAdd(RMul(RMul(RSub(RMul(RAdd(a, RInt(2)), x), RAdd(a, RInt(3))), x), x),
              RInt(1))
    ELSE IF RLess(x, RInt(2))
    THEN RSub(RMul(RAdd(RMul(RSub(RMul(a, x), RMul(RInt(5), a)), x), RInt(8)), x),
              RMul(RInt(4), a))
    ELSE RInt(0)

bicubic_filter(x) == BicubicAbs(RAbs(x), RInt(BicubicA))

\* static struct filter ANTIALIAS, NEAREST, BILINEAR, BICUBIC
ANTIALIAS == [filter |-> "antialias_filter", support |-> <<3, 1>>]

NEAREST == [filter |-> "nearest_filter", support |-> <<1, 2>>]

BILINEAR == [filter |-> "bilinear_filter", support |-> <<1, 1>>]

BICUBIC == [filter |-> "bicubic_filter", support |-> <<2, 1>>]

\* filterp->filter(x)
CallFilter(filterp, x) ==
    CASE filterp.filter = "antialias_filter" -> antialias_filter(x)
      [] filterp.filter = "nearest_filter" -> nearest_filter(x)
      [] filterp.filter = "bilinear_filter" -> bilinear_filter(x)
      [] filterp.filter = "bicubic_filter" -> bicubic_filter(x)

(* ------------------------------------------------------------------ *)
(* fixed point                                                        *)
(* ------------------------------------------------------------------ *)

PRECISION_BITS == 32 - 8 - 2

\* 1 << PRECISION_BITS,  1 << (PRECISION_BITS - 1),  1 << PRECISION_BITS << 8
FixedOne == Pow2(PRECISION_BITS)

FixedHalf == Pow2(PRECISION_BITS - 1)

FixedTop == Pow2(PRECISION_BITS) * Pow2(8)

\* clip8 without  if (in <= 0) return 0:  the (UINT8) cast of the shifted value
clip8NoLowClamp(in) ==
    IF in >= FixedTop THEN 255 ELSE (in \div FixedOne) % 256

clip8(in) ==
    IF in >= FixedTop THEN 255
    ELSE IF in <= 0 THEN 0
    ELSE in \div FixedOne

(* ------------------------------------------------------------------ *)
(* coefficients of one destination index                              *)
(* ------------------------------------------------------------------ *)

\* filterscale = scale = (float) in / out
Scale(inSize, outSize) == Rat(inSize, outSize)

\* if (filterscale < 1.0) filterscale = 1.0
FilterScale(fs) == IF RLess(fs, RInt(1)) THEN RInt(1) ELSE fs

\* support = filterp->support * filterscale
Support(filterp, fs) == RMul(filterp.support, fs)

\* kmax without the centre tap:  (int) ceil(support) * 2
KMaxEven(sup) == Ceil(sup) * 2

\* kmax = (int) ceil(support) * 2 + 1
KMax(sup) == Ceil(sup) * 2 + 1

\* center = (yy + 0.5) * scale
Center(i, sc) == RMul(RAdd(RInt(i), Half), sc)

\* if (ymin < 0) ymin = 0
ClampLow(m) == IF m < 0 THEN 0 ELSE m

\* if (ymax > imIn->ysize) ymax = imIn->ysize
ClampHigh(m, inSize) == IF m > inSize THEN inSize ELSE m

\* ymin = (int) floor(center - support)
WindowMin(center, sup) == ClampLow(Floor(RSub(center, sup)))

\* ymax = (int) ceil(center + support)
WindowMax(center, sup, inSize) == ClampHigh(Ceil(RAdd(center, sup)), inSize)

\* float w = filterp->filter((y - center + 0.5) * ss) * ss
Weight(filterp, j, center, ss) ==
    RMul(CallFilter(filterp, RMul(RAdd(RSub(RInt(j), center), Half), ss)), ss)

\* ww after the first loop: ww = 0.0; for (...) { k[y - ymin] = w; ww = ww + w; }
RECURSIVE SumWeights(_, _)
SumWeights(w, n) ==
    IF n = 0 THEN RInt(0) ELSE RAdd(SumWeights(w, n - 1), w[n - 1])

\* k[y] left as it is, without the division by ww
Unnormalised(w, ww) == w

\* k[y] /= ww
Normalised(w, ww) == RDiv(w, ww)

\* intk[y] = (int) (k[y] * (1 << PRECISION_BITS))
ToFixed(kv) == ScaleTrunc(kv, PRECISION_BITS)

\* The window and the two coefficient arrays computed for destination index i, one
\* statement group of the loop body after the other.
CoeffResult(lo, hi, ww, kf) ==
    [min |-> lo, max |-> hi, ww |-> ww, k |-> kf,
     intk |-> Stored([n \in 0 .. (hi - lo - 1) |-> ToFixed(kf[n])])]

CoeffNormalise(lo, hi, ww, w) ==
    CoeffResult(lo, hi, ww, Stored([n \in 0 .. (hi - lo - 1) |-> Normalised(w[n], ww)]))

CoeffSum(lo, hi, w) == CoeffNormalise(lo, hi, SumWeights(w, hi - lo), w)

CoeffWeights(filterp, center, ss, lo, hi) ==
    CoeffSum(lo, hi,
             Stored([n \in 0 .. (hi - lo - 1) |-> Weight(filterp, lo + n, center, ss)]))

CoeffWindow(filterp, center, ss, sup, inSize) ==
    CoeffWeights(filterp, center, ss, WindowMin(center, sup),
                 WindowMax(center, sup, inSize))

CoeffRow(filterp, sc, fs, sup, inSize, i) ==
    CoeffWindow(filterp, Center(i, sc), RDiv(RInt(1), fs), sup, inSize)

(* ------------------------------------------------------------------ *)
(* images and the inputs of a call                                    *)
(* ------------------------------------------------------------------ *)

\* largest axis length of the images of Spec
MaxLen == 3

\* largest axis length of the images of Spec whose mode is not "RGB"
MaxModeLen == 2

\* largest length of the stretched axis of the images of SpecCoeff
MaxCoeffLen == 8

\* the image modes of the model: sample type and number of bands
ModeInfo ==
    [L |-> [type |-> "UINT8", bands |-> 1],
     LA |-> [type |-> "UINT8", bands |-> 2],
     RGB |-> [type |-> "UINT8", bands |-> 3],
     RGBA |-> [type |-> "UINT8", bands |-> 4],
     F |-> [type |-> "FLOAT32", bands |-> 1]]

Modes == DOMAIN ModeInfo

\* the filter argument: the four supported ids and an unsupported one
FilterIds ==
    {"IMAGING_TRANSFORM_NEAREST", "IMAGING_TRANSFORM_ANTIALIAS",
     "IMAGING_TRANSFORM_BILINEAR", "IMAGING_TRANSFORM_BICUBIC", "OTHER"}

\* the two colours of the source images (bands 0, 1, 2)
Colors == << <<0, 255, 100>>, <<255, 0, 37>> >>

\* an Imaging: image[y] is a row of 4 bytes per pixel, read as image[y][x*4+band].
\* valid = FALSE stands for the NULL pointer.
NewImage(mode, xsize, ysize, rows) ==
    [valid |-> TRUE, mode |-> mode, type |-> ModeInfo[mode].type,
     bands |-> ModeInfo[mode].bands, xsize |-> xsize, ysize |-> ysize, image |-> rows]

\* source image: pixel (x, y) has colour (fx[x] + fy[y]) % 2, the 4th byte is 0
SourceImage(mode, xsize, ysize, fx, fy) ==
    NewImage(mode, xsize, ysize,
             [y \in 0 .. (ysize - 1) |->
                [b \in 0 .. (4 * xsize - 1) |->
                   IF b % 4 = 3 THEN 0
                   ELSE Colors[((fx[b \div 4] + fy[y]) % 2) + 1][(b % 4) + 1]]])

\* destination image before the call: every byte 77
DestImage(mode, xsize, ysize) ==
    NewImage(mode, xsize, ysize,
             [y \in 0 .. (ysize - 1) |-> [b \in 0 .. (4 * xsize - 1) |-> 77]])

NullImage == [DestImage("L", 1, 1) EXCEPT !.valid = FALSE]

Zeros(n) == [i \in 0 .. (n - 1) |-> 0]

\* A call: the modes and sizes of the two images, the pattern of the source, the
\* filter, and whether an image pointer is NULL.
Call(mi, mo, sx, sy, dx, dy, fx, fy, f, inNull, outNull) ==
    [mi |-> mi, mo |-> mo, sx |-> sx, sy |-> sy, dx |-> dx, dy |-> dy, fx |-> fx,
     fy |-> fy, filter |-> f, inNull |-> inNull, outNull |-> outNull]

\* the patterns of n pixels along one axis.  A pair of "RGB" images has every
\* two-colour pattern along the axis that the loops run over (varied), and one
\* colour or alternating colours along the other axis; the other pairs of modes
\* have one colour.
Patterns(mi, mo, n, varied) ==
    IF mi # "RGB" \/ mo # "RGB" THEN {Zeros(n)}
    ELSE IF varied THEN [0 .. (n - 1) -> 0 .. 1]
    ELSE {Zeros(n), [i \in 0 .. (n - 1) |-> i % 2]}

\* a NULL image is passed only in calls on 1x1 "RGB" images
NullCase(call) ==
    (call.inNull \/ call.outNull)
        => /\ call.mi = "RGB" /\ call.mo = "RGB"
           /\ call.sx = 1 /\ call.sy = 1 /\ call.dx = 1 /\ call.dy = 1

\* the images of a pair of modes other than "RGB" have at most MaxModeLen pixels
\* along each axis
ModeCase(call) ==
    (call.mi # "RGB" \/ call.mo # "RGB")
        => /\ call.sx <= MaxModeLen /\ call.sy <= MaxModeLen
           /\ call.dx <= MaxModeLen /\ call.dy <= MaxModeLen

\* a call that stretches one row (axis "x") or one column (axis "y") from s to
\* d pixels, or a 1x1 image to d x d pixels (axis "xy", rejected when d > 1)
AxisCall(axis, mo, s, d, f) ==
    Call("RGB", mo,
         IF axis = "x" THEN s ELSE 1, IF axis = "y" THEN s ELSE 1,
         IF axis = "y" THEN 1 ELSE d, IF axis = "x" THEN 1 ELSE d,
         Zeros(IF axis = "x" THEN s ELSE 1), Zeros(IF axis = "y" THEN s ELSE 1),
         f, FALSE, FALSE)

\* the rejected calls are made with the smallest sizes only
AxisCase(axis, mo, s, d) ==
    (axis = "xy" \/ mo # "RGB") => (s = 1 /\ d <= 2)

\* the arguments imIn and imOut of a call
ImInOf(call) ==
    IF call.inNull THEN NullImage
    ELSE SourceImage(call.mi, call.sx, call.sy, call.fx, call.fy)

ImOutOf(call) ==
    IF call.outNull THEN NullImage ELSE DestImage(call.mo, call.dx, call.dy)

(* ------------------------------------------------------------------ *)
(* state                                                              *)
(* ------------------------------------------------------------------ *)

VARIABLES
    imIn, imOut, filter,      \* the arguments
    pc,                       \* position in ImagingStretch
    ret, err,                 \* return value, and the error reported
    section,                  \* ImagingSectionEnter calls minus ImagingSectionLeave calls
    errInSection,             \* an error was reported while the section was entered
    heap,                     \* the transient buffers that are allocated
    filterp, scale, filterscale, support, kmax,
    ymin, ymax, xmin, xmax, xx, yy,
    k, intk, kk, intkk, xbounds,
    acc,                      \* ss0, ss1, ss2 of every pixel of the last row stored
    written,                  \* the bytes <<y, offset>> of imOut stored so far
    imOut0,                   \* imOut before the call
    failed                    \* the allocation of this call that returned NULL

vars ==
    <<imIn, imOut, filter, pc, ret, err, section, errInSection, heap, filterp, scale,
      filterscale, support, kmax, ymin, ymax, xmin, xmax, xx, yy, k, intk, kk, intkk,
      xbounds, acc, written, imOut0, failed>>

\* a local or a buffer that has not been assigned yet
NoFilter == [filter |-> "none", support |-> RInt(0)]

NoBuffer == << >>

Start(call) ==
    /\ imIn = ImInOf(call)
    /\ imOut = ImOutOf(call)
    /\ filter = call.filter
    /\ imOut0 = ImOutOf(call)
    /\ pc = "modes"
    /\ ret = "none"
    /\ err = "none"
    /\ section = 0
    /\ errInSection = FALSE
    /\ heap = {}
    /\ filterp = NoFilter
    /\ scale = RInt(0)
    /\ filterscale = RInt(0)
    /\ support = RInt(0)
    /\ kmax = 0
    /\ ymin = 0 /\ ymax = 0 /\ xmin = 0 /\ xmax = 0 /\ xx = 0 /\ yy = 0
    /\ k = NoBuffer /\ intk = NoBuffer /\ kk = NoBuffer /\ intkk = NoBuffer
    /\ xbounds = NoBuffer
    /\ acc = << >>
    /\ written = {}
    /\ failed = "none"

Init ==
    \E mi \in Modes, mo \in Modes, f \in FilterIds, inNull \in BOOLEAN,
       outNull \in BOOLEAN, sx \in 1 .. MaxLen, sy \in 1 .. MaxLen,
       dx \in 1 .. MaxLen, dy \in 1 .. MaxLen :
        \E fx \in Patterns(mi, mo, sx, sx # dx /\ sy = dy),
           fy \in Patterns(mi, mo, sy, sx = dx) :
            \E call \in {Call(mi, mo, sx, sy, dx, dy, fx, fy, f, inNull, outNull)} :
                NullCase(call) /\ ModeCase(call) /\ Start(call)

InitCoeff ==
    \E axis \in {"x", "y", "xy"}, mo \in {"RGB", "L"}, f \in FilterIds,
       s \in 1 .. MaxCoeffLen, d \in 1 .. MaxCoeffLen :
        AxisCase(axis, mo, s, d) /\ Start(AxisCall(axis, mo, s, d, f))

(* ------------------------------------------------------------------ *)
(* int arithmetic of the accumulators                                 *)
(* ------------------------------------------------------------------ *)

\* a + b in 32-bit two's complement
Add32(a, b) ==
    IF b > 0 /\ a > INT_MAX - b THEN (a + INT_MIN) + (b + INT_MIN)
    ELSE IF b < 0 /\ a < INT_MIN - b THEN (a - INT_MIN) + (b - INT_MIN)
    ELSE a + b

\* sample * c in 32-bit two's complement, for a sample of 0 .. 255
Signed16(h) == IF h >= 32768 THEN h - 65536 ELSE h

Mul32(sample, c) ==
    Add32(Signed16((sample * (c \div 65536)) % 65536) * 65536, sample * (c % 65536))

\* buf[i].  An index outside the buffer is undefined behaviour in C; it reads as
\* INT_MIN here, and C10_WindowBounds shows that no reachable state has such an index.
Load(buf, i) == IF i \in DOMAIN buf THEN buf[i] ELSE INT_MIN

\* intk[y - ymin] of the vertical loop
VTap(buf, y, lo) == Load(buf, y - lo)

\* intk[x - xmin] of the horizontal loop with intk = intkk, the first row of the
\* table, for every xx
HTapFirstRow(buf, col, stride, x, lo) == Load(buf, x - lo)

\* intk[x - xmin] of the horizontal loop, with intk = &intkk[xx * kmax]
HTap(buf, col, stride, x, lo) == Load(buf, col * stride + (x - lo))

\* ss0 = 1 << (PRECISION_BITS - 1);
\* for (y = ymin; y < ymax; y++) ss0 = ss0 + ((UINT8) imIn->image[y][xx*4+c]) * intk[y - ymin]
RECURSIVE VerticalAcc(_, _, _, _, _, _)
VerticalAcc(image, buf, lo, hi, col, c) ==
    IF hi <= lo THEN FixedHalf
    ELSE Add32(VerticalAcc(image, buf, lo, hi - 1, col, c),
               Mul32(Load(Load(image, hi - 1), col * 4 + c), VTap(buf, hi - 1, lo)))

\* for (x = xmin; x < xmax; x++) ss0 = ss0 + ((UINT8) imIn->image[yy][x*4+c]) * intk[x - xmin]
RECURSIVE HorizontalAcc(_, _, _, _, _, _, _)
HorizontalAcc(row, buf, col, stride, lo, hi, c) ==
    IF hi <= lo THEN FixedHalf
    ELSE Add32(HorizontalAcc(row, buf, col, stride, lo, hi - 1, c),
               Mul32(Load(row, (hi - 1) * 4 + c), HTap(buf, col, stride, hi - 1, lo)))

(* ------------------------------------------------------------------ *)
(* ImagingStretch                                                     *)
(* ------------------------------------------------------------------ *)

\* return (Imaging) ImagingError_...(): the error is reported, NULL is returned
ReturnError(e) ==
    /\ err' = e
    /\ errInSection' = (errInSection \/ section > 0)
    /\ ret' = "NULL"
    /\ pc' = "done"

\* the bytes of bands 0, 1, 2 of row y of the destination
RowBytes(y) == { <<y, b>> : b \in { c \in 0 .. (4 * imOut.xsize - 1) : c % 4 < 3 } }

\* imOut->image[row][xx*4+c] = clip8(ss_c) for every xx
StoreRow(row, sums) ==
    [imOut EXCEPT !.image[row] =
        [b \in DOMAIN @ |-> IF b % 4 < 3 THEN clip8(sums[b \div 4][b % 4]) ELSE @[b]]]

\* !imOut || !imIn, without the comparison of the modes
ModeMismatchNoCompare(in, out) == ~out.valid \/ ~in.valid

\* !imOut || !imIn || strcmp(imIn->mode, imOut->mode) != 0
ModeMismatch(in, out) == ~out.valid \/ ~in.valid \/ in.mode # out.mode

\* check modes: if (...) return (Imaging) ImagingError_ModeError()
CheckModes ==
    /\ pc = "modes"
    /\ IF ModeMismatch(imIn, imOut)
       THEN ReturnError("ModeError")
       ELSE pc' = "filter" /\ UNCHANGED <<ret, err, errInSection>>
    /\ UNCHANGED <<imIn, imOut, filter, section, heap, filterp, scale, filterscale,
                   support, kmax, ymin, ymax, xmin, xmax, xx, yy, k, intk, kk, intkk,
                   xbounds, acc, written, imOut0, failed>>

\* switch (filter)
CheckFilter ==
    /\ pc = "filter"
    /\ IF filter = "IMAGING_TRANSFORM_NEAREST"
       THEN filterp' = NEAREST /\ pc' = "dims" /\ UNCHANGED <<ret, err, errInSection>>
       ELSE IF filter = "IMAGING_TRANSFORM_ANTIALIAS"
       THEN filterp' = ANTIALIAS /\ pc' = "dims" /\ UNCHANGED <<ret, err, errInSection>>
       ELSE IF filter = "IMAGING_TRANSFORM_BILINEAR"
       THEN filterp' = BILINEAR /\ pc' = "dims" /\ UNCHANGED <<ret, err, errInSection>>
       ELSE IF filter = "IMAGING_TRANSFORM_BICUBIC"
       THEN filterp' = BICUBIC /\ pc' = "dims" /\ UNCHANGED <<ret, err, errInSection>>
       ELSE ReturnError("ValueError") /\ UNCHANGED filterp
    /\ UNCHANGED <<imIn, imOut, filter, section, heap, scale, filterscale,
                   support, kmax, ymin, ymax, xmin, xmax, xx, yy, k, intk, kk, intkk,
                   xbounds, acc, written, imOut0, failed>>

\* the branch taken if a call whose two axes both agree were rejected as well
StretchAxisExactlyOne(in, out) ==
    IF in.ysize = out.ysize /\ in.xsize # out.xsize THEN "x"
    ELSE IF in.xsize = out.xsize /\ in.ysize # out.ysize THEN "y"
    ELSE "none"

\* the branch of  if (imIn->ysize == imOut->ysize) ... else if (imIn->xsize ==
\* imOut->xsize) ... else ...  that is taken: "x" prepares for horizontal stretch,
\* "y" for vertical stretch, "none" returns ImagingError_Mismatch
StretchAxis(in, out) ==
    IF in.ysize = out.ysize THEN "x"
    ELSE IF in.xsize = out.xsize THEN "y"
    ELSE "none"

\* prepare for horizontal or vertical stretch, or return ImagingError_Mismatch
CheckDims ==
    /\ pc = "dims"
    /\ IF StretchAxis(imIn, imOut) = "x"
       THEN /\ scale' = Scale(imIn.xsize, imOut.xsize)
            /\ filterscale' = Scale(imIn.xsize, imOut.xsize)
            /\ pc' = "support"
            /\ UNCHANGED <<ret, err, errInSection>>
       ELSE IF StretchAxis(imIn, imOut) = "y"
       THEN /\ scale' = Scale(imIn.ysize, imOut.ysize)
            /\ filterscale' = Scale(imIn.ysize, imOut.ysize)
            /\ pc' = "support"
            /\ UNCHANGED <<ret, err, errInSection>>
       ELSE ReturnError("Mismatch") /\ UNCHANGED <<scale, filterscale>>
    /\ UNCHANGED <<imIn, imOut, filter, section, heap, filterp,
                   support, kmax, ymin, ymax, xmin, xmax, xx, yy, k, intk, kk, intkk,
                   xbounds, acc, written, imOut0, failed>>

\* determine support size (length of resampling filter)
SupportSize ==
    /\ pc = "support"
    /\ filterscale' = FilterScale(filterscale)
    /\ support' = Support(filterp, filterscale')
    /\ kmax' = KMax(support')
    /\ pc' = "enter"
    /\ UNCHANGED <<imIn, imOut, filter, ret, err, section, errInSection, heap, filterp,
                   scale, ymin, ymax, xmin, xmax, xx, yy, k, intk, kk, intkk,
                   xbounds, acc, written, imOut0, failed>>

\* ImagingSectionEnter(&cookie); if (imIn->xsize == imOut->xsize) ... else ...
SectionEnter ==
    /\ pc = "enter"
    /\ section' = section + 1
    /\ pc' = IF imIn.xsize = imOut.xsize THEN "v_alloc_k" ELSE "h_alloc_kk"
    /\ UNCHANGED <<imIn, imOut, filter, ret, err, errInSection, heap, filterp, scale,
                   filterscale, support, kmax, ymin, ymax, xmin, xmax, xx, yy, k, intk,
                   kk, intkk, xbounds, acc, written, imOut0, failed>>

\* a buffer of n elements as malloc returns it: no element has a value yet
FreshFloats(n) == [j \in 0 .. (n - 1) |-> NotFinite]

FreshInts(n) == [j \in 0 .. (n - 1) |-> INT_MIN]

\* k = malloc(kmax * sizeof(float)); if (!k) return MemoryError
AllocK ==
    /\ pc = "v_alloc_k"
    /\ \E ok \in BOOLEAN :
         /\ failed' = (IF ok THEN failed ELSE "k")
         /\ IF ok
            THEN /\ k' = FreshFloats(kmax)
                 /\ heap' = heap \cup {"k"}
                 /\ pc' = "v_alloc_intk"
                 /\ UNCHANGED <<ret, err, errInSection>>
            ELSE ReturnError("MemoryError") /\ UNCHANGED <<k, heap>>
    /\ UNCHANGED <<imIn, imOut, filter, section, filterp, scale, filterscale,
                   support, kmax, ymin, ymax, xmin, xmax, xx, yy, intk, kk, intkk,
                   xbounds, acc, written, imOut0>>

\* intk = malloc(kmax * sizeof(int)); if (!intk) { free(k); return MemoryError }
AllocIntk ==
    /\ pc = "v_alloc_intk"
    /\ \E ok \in BOOLEAN :
         /\ failed' = (IF ok THEN failed ELSE "intk")
         /\ IF ok
            THEN /\ intk' = FreshInts(kmax)
                 /\ heap' = heap \cup {"intk"}
                 /\ pc' = "v_loop"
                 /\ yy' = 0
                 /\ UNCHANGED <<ret, err, errInSection>>
            ELSE /\ heap' = heap \ {"k"}
                 /\ ReturnError("MemoryError")
                 /\ UNCHANGED <<intk, yy>>
    /\ UNCHANGED <<imIn, imOut, filter, section, filterp, scale, filterscale,
                   support, kmax, ymin, ymax, xmin, xmax, xx, k, kk, intkk,
                   xbounds, acc, written, imOut0>>

\* buf with buf[base + j] = vals[j] for j < n
Overwrite(buf, base, n, vals) ==
    [j \in DOMAIN buf |-> IF j >= base /\ j < base + n THEN vals[j - base] ELSE buf[j]]

\* ss0, ss1, ss2 of every xx of one destination row of the vertical stretch
VerticalSums(image, xsize, buf, lo, hi) ==
    [col \in 0 .. (xsize - 1) |->
       [c \in 0 .. 2 |-> VerticalAcc(image, buf, lo, hi, col, c)]]

\* one iteration of  for (yy = 0; yy < imOut->ysize; yy++)  of the vertical stretch
VerticalRow ==
    /\ pc = "v_loop"
    /\ \E row \in {CoeffRow(filterp, scale, filterscale, support, imIn.ysize, yy)} :
       \E nintk \in {Overwrite(intk, 0, row.max - row.min, row.intk)} :
          /\ ymin' = row.min
          /\ ymax' = row.max
          /\ k' = Overwrite(k, 0, row.max - row.min, row.k)
          /\ intk' = nintk
          /\ IF imIn.type = "UINT8" /\ imIn.bands = 3
             THEN \E sums \in {VerticalSums(imIn.image, imOut.xsize, nintk, row.min,
                                             row.max)} :
                     /\ imOut' = StoreRow(yy, sums)
                     /\ acc' = sums
                     /\ written' = written \cup RowBytes(yy)
                     /\ xx' = imOut.xsize
             ELSE UNCHANGED <<imOut, acc, written, xx>>
    /\ yy' = yy + 1
    /\ pc' = IF yy + 1 < imOut.ysize THEN "v_loop" ELSE "v_free"
    /\ UNCHANGED <<imIn, filter, ret, err, section, errInSection, heap, filterp, scale,
                   filterscale, support, kmax, xmin, xmax, kk, intkk, xbounds, imOut0,
                   failed>>

\* free(k); free(intk)
VerticalFree ==
    /\ pc = "v_free"
    /\ heap' = heap \ {"k", "intk"}
    /\ pc' = "leave"
    /\ UNCHANGED <<imIn, imOut, filter, ret, err, section, errInSection, filterp, scale,
                   filterscale, support, kmax, ymin, ymax, xmin, xmax, xx, yy, k, intk,
                   kk, intkk, xbounds, acc, written, imOut0, failed>>

\* kk = malloc(imOut->xsize * kmax * sizeof(float)); if (!kk) return MemoryError
AllocKK ==
    /\ pc = "h_alloc_kk"
    /\ \E ok \in BOOLEAN :
         /\ failed' = (IF ok THEN failed ELSE "kk")
         /\ IF ok
            THEN /\ kk' = FreshFloats(imOut.xsize * kmax)
                 /\ heap' = heap \cup {"kk"}
                 /\ pc' = "h_alloc_intkk"
                 /\ UNCHANGED <<ret, err, errInSection>>
            ELSE ReturnError("MemoryError") /\ UNCHANGED <<kk, heap>>
    /\ UNCHANGED <<imIn, imOut, filter, section, filterp, scale, filterscale,
                   support, kmax, ymin, ymax, xmin, xmax, xx, yy, k, intk, intkk,
                   xbounds, acc, written, imOut0>>

\* intkk = malloc(imOut->xsize * kmax * sizeof(int));
\* if (!intkk) { free(kk); return MemoryError }
AllocIntkk ==
    /\ pc = "h_alloc_intkk"
    /\ \E ok \in BOOLEAN :
         /\ failed' = (IF ok THEN failed ELSE "intkk")
         /\ IF ok
            THEN /\ intkk' = FreshInts(imOut.xsize * kmax)
                 /\ heap' = heap \cup {"intkk"}
                 /\ pc' = "h_alloc_xbounds"
                 /\ UNCHANGED <<ret, err, errInSection>>
            ELSE /\ heap' = heap \ {"kk"}
                 /\ ReturnError("MemoryError")
                 /\ UNCHANGED intkk
    /\ UNCHANGED <<imIn, imOut, filter, section, filterp, scale, filterscale,
                   support, kmax, ymin, ymax, xmin, xmax, xx, yy, k, intk, kk,
                   xbounds, acc, written, imOut0>>

\* xbounds = malloc(imOut->xsize * 2 * sizeof(int));
\* if (!xbounds) { free(kk); free(intkk); return 0; }
AllocXbounds ==
    /\ pc = "h_alloc_xbounds"
    /\ \E ok \in BOOLEAN :
         /\ failed' = (IF ok THEN failed ELSE "xbounds")
         /\ IF ok
            THEN /\ xbounds' = FreshInts(imOut.xsize * 2)
                 /\ heap' = heap \cup {"xbounds"}
                 /\ pc' = "h_coeffs"
                 /\ xx' = 0
                 /\ UNCHANGED ret
            ELSE /\ heap' = heap \ {"kk", "intkk"}
                 /\ ret' = "NULL"
                 /\ pc' = "done"
                 /\ UNCHANGED <<xbounds, xx>>
    /\ UNCHANGED <<imIn, imOut, filter, err, section, errInSection, filterp, scale,
                   filterscale, support, kmax, ymin, ymax, xmin, xmax, yy, k, intk, kk,
                   intkk, acc, written, imOut0>>

\* one iteration of  for (xx = 0; xx < imOut->xsize; xx++)  that fills kk, intkk
\* and xbounds
HorizontalCoeffs ==
    /\ pc = "h_coeffs"
    /\ \E row \in {CoeffRow(filterp, scale, filterscale, support, imIn.xsize, xx)} :
          /\ xmin' = row.min
          /\ xmax' = row.max
          /\ kk' = Overwrite(kk, xx * kmax, row.max - row.min, row.k)
          /\ intkk' = Overwrite(intkk, xx * kmax, row.max - row.min, row.intk)
          /\ xbounds' = [xbounds EXCEPT ![xx * 2 + 0] = row.min, ![xx * 2 + 1] = row.max]
    /\ xx' = xx + 1
    /\ yy' = IF xx + 1 < imOut.xsize THEN yy ELSE 0
    /\ pc' = IF xx + 1 < imOut.xsize THEN "h_coeffs" ELSE "h_loop"
    /\ UNCHANGED <<imIn, imOut, filter, ret, err, section, errInSection, heap, filterp,
                   scale, filterscale, support, kmax, ymin, ymax, k, intk, acc,
                   written, imOut0, failed>>

\* ss0, ss1, ss2 of every xx of one destination row of the horizontal stretch
HorizontalSums(row, xsize, buf, stride, bounds) ==
    [col \in 0 .. (xsize - 1) |->
       [c \in 0 .. 2 |->
          HorizontalAcc(row, buf, col, stride, Load(bounds, col * 2 + 0),
                        Load(bounds, col * 2 + 1), c)]]

\* one iteration of  for (yy = 0; yy < imOut->ysize; yy++)  of the horizontal stretch
HorizontalRow ==
    /\ pc = "h_loop"
    /\ IF imIn.type = "UINT8" /\ imIn.bands = 3
       THEN \E sums \in {HorizontalSums(imIn.image[yy], imOut.xsize, intkk, kmax,
                                         xbounds)} :
               /\ imOut' = StoreRow(yy, sums)
               /\ acc' = sums
               /\ written' = written \cup RowBytes(yy)
               /\ xx' = imOut.xsize
               /\ xmin' = Load(xbounds, (imOut.xsize - 1) * 2 + 0)
               /\ xmax' = Load(xbounds, (imOut.xsize - 1) * 2 + 1)
       ELSE UNCHANGED <<imOut, acc, written, xx, xmin, xmax>>
    /\ yy' = yy + 1
    /\ pc' = IF yy + 1 < imOut.ysize THEN "h_loop" ELSE "h_free"
    /\ UNCHANGED <<imIn, filter, ret, err, section, errInSection, heap, filterp, scale,
                   filterscale, support, kmax, ymin, ymax, k, intk, kk, intkk, xbounds,
                   imOut0, failed>>

\* free(kk); free(intkk); free(xbounds)
HorizontalFree ==
    /\ pc = "h_free"
    /\ heap' = heap \ {"kk", "intkk", "xbounds"}
    /\ pc' = "leave"
    /\ UNCHANGED <<imIn, imOut, filter, ret, err, section, errInSection, filterp, scale,
                   filterscale, support, kmax, ymin, ymax, xmin, xmax, xx, yy, k, intk,
                   kk, intkk, xbounds, acc, written, imOut0, failed>>

\* ImagingSectionLeave(&cookie); return imOut
SectionLeave ==
    /\ pc = "leave"
    /\ section' = section - 1
    /\ ret' = "imOut"
    /\ pc' = "done"
    /\ UNCHANGED <<imIn, imOut, filter, err, errInSection, heap, filterp, scale,
                   filterscale, support, kmax, ymin, ymax, xmin, xmax, xx, yy, k, intk,
                   kk, intkk, xbounds, acc, written, imOut0, failed>>

Next ==
    \/ CheckModes
    \/ CheckFilter
    \/ CheckDims
    \/ SupportSize
    \/ SectionEnter
    \/ AllocK
    \/ AllocIntk
    \/ VerticalRow
    \/ VerticalFree
    \/ AllocKK
    \/ AllocIntkk
    \/ AllocXbounds
    \/ HorizontalCoeffs
    \/ HorizontalRow
    \/ HorizontalFree
    \/ SectionLeave

Spec == Init /\ [][Next]_vars

SpecCoeff == InitCoeff /\ [][Next]_vars

(* ------------------------------------------------------------------ *)
(* properties                                                         *)
(* ------------------------------------------------------------------ *)

\* the filter ids that the switch of ImagingStretch accepts
Supported == FilterIds \ {"OTHER"}

\* ImagingStretch has returned imOut
Succeeded == pc = "done" /\ ret = "imOut"

\* the bytes <<y, offset>> of the first n channels of every pixel of im
ChannelBytes(im, n) ==
    { <<y, b>> : y \in 0 .. (im.ysize - 1),
                 b \in { c \in 0 .. (4 * im.xsize - 1) : c % 4 < n } }

\* the column of band 0 of a 1x3 image
Column3(im) == <<im.image[0][0], im.image[1][0], im.image[2][0]>>

\* C1 (Identity): a call on 8-bit 3-band images of the same size that returns
\* imOut has written into every channel of every destination pixel the value of
\* the source at the same position, within 1, whatever the filter.
C1_Identity ==
    (/\ Succeeded
     /\ imIn.type = "UINT8" /\ imIn.bands = 3
     /\ imIn.xsize = imOut.xsize /\ imIn.ysize = imOut.ysize)
        => \A p \in ChannelBytes(imOut, 3) :
              Abs(imOut.image[p[1]][p[2]] - imIn.image[p[1]][p[2]]) <= 1

\* C1: the bicubic stretch of the 1x3 column 0, 255, 0 to the same size has stored
\* 227, 15, 227
C1_BicubicColumn ==
    /\ Succeeded
    /\ filter = "IMAGING_TRANSFORM_BICUBIC"
    /\ imIn.mode = "RGB"
    /\ imIn.xsize = 1 /\ imIn.ysize = 3 /\ imOut.xsize = 1 /\ imOut.ysize = 3
    /\ Column3(imIn) = <<0, 255, 0>>
    /\ Column3(imOut) = <<227, 15, 227>>

\* C2 (Success postcondition): when a call on 8-bit images returns imOut, every
\* channel of every destination pixel has been written, for 1, 2, 3 and 4 bands.
C2_SuccessPostcondition ==
    (Succeeded /\ imIn.type = "UINT8")
        => ChannelBytes(imOut, imOut.bands) \subseteq written

\* C2: a call on "RGBA" images has returned imOut and has written nothing
C2_NothingWritten ==
    /\ Succeeded
    /\ imIn.mode = "RGBA"
    /\ written = {}
    /\ imOut = imOut0

\* the modes agree, the filter is supported, and the sizes have been compared
DimsChecked ==
    /\ ~ModeMismatch(imIn, imOut)
    /\ filter \in Supported
    /\ pc \notin {"modes", "filter", "dims"}

\* nothing of the coefficient computation has happened
NoCoefficients ==
    /\ kmax = 0 /\ section = 0 /\ heap = {}
    /\ k = NoBuffer /\ intk = NoBuffer /\ kk = NoBuffer /\ intkk = NoBuffer
    /\ xbounds = NoBuffer

\* C3 (Dimension validation, as the code has it): with equal modes and a supported
\* filter the call is rejected with the dimension-mismatch error exactly when
\* neither the widths nor the heights agree, and then before any coefficient is
\* computed; a call whose two axes both agree is accepted.
C3_DimensionValidation ==
    DimsChecked =>
        /\ (err = "Mismatch")
              <=> (imIn.xsize # imOut.xsize /\ imIn.ysize # imOut.ysize)
        /\ (err = "Mismatch") => (pc = "done" /\ ret = "NULL" /\ NoCoefficients)

\* C3 as stated: the call is accepted only when exactly one axis agrees, and is
\* rejected with the dimension-mismatch error when both or neither agree.
C3_ExactlyOneAxis ==
    DimsChecked =>
        ((err = "Mismatch")
            <=> ((imIn.xsize = imOut.xsize) <=> (imIn.ysize = imOut.ysize)))

\* C3: a call whose axes both differ has been rejected
C3_MismatchRejected ==
    /\ DimsChecked
    /\ pc = "done" /\ ret = "NULL" /\ err = "Mismatch"
    /\ imIn.xsize # imOut.xsize /\ imIn.ysize # imOut.ysize

\* the vertical loop has computed the coefficients of row yy - 1 into k and intk
VerticalRowDone == intk # NoBuffer /\ yy > 0

\* the number of rows of the tables kk, intkk and xbounds that have been computed
ColsDone ==
    IF xbounds = NoBuffer THEN 0
    ELSE IF pc = "h_coeffs" THEN xx
    ELSE imOut.xsize

RECURSIVE SumInts(_, _, _)
SumInts(buf, base, n) ==
    IF n = 0 THEN 0 ELSE SumInts(buf, base, n - 1) + buf[base + n - 1]

\* 2^21, 2^22 and 2^30
TwoTo21 == Pow2(21)

TwoTo22 == Pow2(22)

TwoTo30 == Pow2(30)

\* the distance of the sum of n fixed-point coefficients from 1.0
RowError(buf, base, n) == Abs(SumInts(buf, base, n) - TwoTo22)

\* C4 (Normalization, as the code has it): the fixed-point coefficients of every
\* computed row sum to 2^22 within twice the number of taps max - min: every
\* coefficient is truncated toward zero and loses less than one unit.
C4_Normalization ==
    /\ VerticalRowDone => RowError(intk, 0, ymax - ymin) <= 2 * (ymax - ymin)
    /\ \A col \in 0 .. (ColsDone - 1) :
          RowError(intkk, col * kmax, xbounds[2 * col + 1] - xbounds[2 * col])
              <= 2 * (xbounds[2 * col + 1] - xbounds[2 * col])

\* C4 as stated: the fixed-point coefficients of every computed row sum to 2^22
\* within 1.
C4_WithinOne ==
    /\ VerticalRowDone => RowError(intk, 0, ymax - ymin) <= 1
    /\ \A col \in 0 .. (ColsDone - 1) :
          RowError(intkk, col * kmax, xbounds[2 * col + 1] - xbounds[2 * col]) <= 1

\* C4: a row of five taps has been computed whose coefficients sum to 2^22 - 4
C4_FiveTaps ==
    /\ VerticalRowDone
    /\ ymax - ymin = 5
    /\ SumInts(intk, 0, 5) = TwoTo22 - 4

\* min(255, max(0, floor(a / 2^22)))
Saturate(a) ==
    IF a \div TwoTo22 > 255 THEN 255
    ELSE IF a \div TwoTo22 < 0 THEN 0
    ELSE a \div TwoTo22

\* accumulator values around every boundary of clip8
AccSamples ==
    {INT_MIN, INT_MIN + 1, -TwoTo30, -TwoTo22 - 1, -TwoTo22, -TwoTo22 + 1, -1, 0, 1,
     TwoTo21, TwoTo22 - 1, TwoTo22, TwoTo22 + 1, 255 * TwoTo22 - 1, 255 * TwoTo22,
     TwoTo30 - 1, TwoTo30, TwoTo30 + 1, INT_MAX - 1, INT_MAX}

\* clip8 on every sample value
ClipSaturates == \A a \in AccSamples : clip8(a) = Saturate(a)

RECURSIVE WeightedSum(_, _, _)
WeightedSum(samples, coeffs, n) ==
    IF n = 0 THEN 0
    ELSE WeightedSum(samples, coeffs, n - 1) + samples[n - 1] * coeffs[n - 1]

\* the weighted sum of the window of channel c of pixel (col, yy - 1), in integers
LastRowSum(col, c) ==
    IF intk # NoBuffer
    THEN WeightedSum([j \in 0 .. (ymax - ymin - 1) |-> imIn.image[ymin + j][4 * col + c]],
                     intk, ymax - ymin)
    ELSE WeightedSum([j \in 0 .. (xbounds[2 * col + 1] - xbounds[2 * col] - 1) |->
                         imIn.image[yy - 1][4 * (xbounds[2 * col] + j) + c]],
                     [j \in 0 .. (xbounds[2 * col + 1] - xbounds[2 * col] - 1) |->
                         intkk[col * kmax + j]],
                     xbounds[2 * col + 1] - xbounds[2 * col])

\* C5 (Saturation and rounding): clip8(a) is min(255, max(0, floor(a / 2^22))); every
\* accumulator is 2^21 plus the weighted sum of its window, and the sample stored
\* for it is its saturated value, in 0 .. 255.
C5_Saturation ==
    /\ ClipSaturates
    /\ acc # << >> =>
          \A col \in DOMAIN acc : \A c \in 0 .. 2 :
              /\ acc[col][c] = TwoTo21 + LastRowSum(col, c)
              /\ imOut.image[yy - 1][4 * col + c] = Saturate(acc[col][c])
              /\ imOut.image[yy - 1][4 * col + c] \in 0 .. 255

\* C5: one pixel has been stored with a negative accumulator in one channel and an
\* accumulator of 2^30 or more in another
C5_BothClamps ==
    /\ acc # << >>
    /\ \E col \in DOMAIN acc : \E c \in 0 .. 2 : \E d \in 0 .. 2 :
          /\ acc[col][c] < 0 /\ imOut.image[yy - 1][4 * col + c] = 0
          /\ acc[col][d] >= TwoTo30 /\ imOut.image[yy - 1][4 * col + d] = 255

\* C6 (No write on error): a call that returns NULL has left every byte of the
\* destination as it was, and a call on images of different modes returns the mode
\* error whatever the filter id and the sizes.
C6_NoWriteOnError ==
    /\ ret = "NULL" => (imOut = imOut0 /\ written = {})
    /\ (pc = "done" /\ imIn.valid /\ imOut.valid /\ imIn.mode # imOut.mode)
          => (ret = "NULL" /\ err = "ModeError")

\* C6: a call on images of different modes, with an unsupported filter and sizes
\* that differ on both axes, has returned the mode error
C6_ModeErrorFirst ==
    /\ pc = "done" /\ ret = "NULL" /\ err = "ModeError"
    /\ imIn.valid /\ imOut.valid /\ imIn.mode # imOut.mode
    /\ filter = "OTHER"
    /\ imIn.xsize # imOut.xsize /\ imIn.ysize # imOut.ysize
    /\ imOut = imOut0

\* C7 (Allocation failure outcome): when the call has returned, every transient
\* buffer is freed, and if one of the five allocations failed the call has returned
\* the memory error.
C7_AllocationFailure ==
    pc = "done" =>
        /\ heap = {}
        /\ failed # "none" => (ret = "NULL" /\ err = "MemoryError")

\* C7: the allocation of xbounds has failed and the call has returned NULL with no
\* error reported
C7_XboundsUnreported ==
    /\ pc = "done" /\ failed = "xbounds"
    /\ ret = "NULL" /\ err = "none"
    /\ heap = {}

\* C9 (Critical-section balance): when the call has returned, ImagingSectionLeave
\* has been executed as often as ImagingSectionEnter, and no error has been reported
\* while the section was entered.
C9_SectionBalance ==
    /\ pc = "done" => section = 0
    /\ ~errInSection

\* C9: the allocation of k has failed and the call has returned inside the section
C9_ReturnInsideSection ==
    /\ pc = "done" /\ failed = "k"
    /\ section = 1 /\ errInSection
    /\ err = "MemoryError"

\* im with its two axes exchanged
TransposeRows(rows, xsize, ysize) ==
    [x \in 0 .. (xsize - 1) |->
       [b \in 0 .. (4 * ysize - 1) |-> rows[b \div 4][4 * x + (b % 4)]]]

Transpose(im) ==
    [im EXCEPT !.xsize = im.ysize, !.ysize = im.xsize,
               !.image = TransposeRows(im.image, im.xsize, im.ysize)]

\* row i of out after the vertical loop body has run for yy = i on in
StoredRow(out, i, sums) ==
    [b \in 0 .. (4 * out.xsize - 1) |->
       IF b % 4 < 3 THEN clip8(sums[b \div 4][b % 4]) ELSE out.image[i][b]]

VerticalRowOf(in, out, km, i, row) ==
    StoredRow(out, i,
              Stored(VerticalSums(in.image, out.xsize,
                                  Overwrite(FreshInts(km), 0, row.max - row.min, row.intk),
                                  row.min, row.max)))

\* the coefficients that the vertical path computes for row i of out
VerticalCoeffs(in, out, fp, fs, i) ==
    CoeffRow(fp, Scale(in.ysize, out.ysize), fs, Support(fp, fs), in.ysize, i)

\* the rows of out after the vertical path has run on in
VerticalStretch(in, out, fp, fs) ==
    [i \in 0 .. (out.ysize - 1) |->
       VerticalRowOf(in, out, KMax(Support(fp, fs)), i, VerticalCoeffs(in, out, fp, fs, i))]

\* the horizontal path has run its loops on 8-bit 3-band images to the end, and
\* has not freed its tables yet
HorizontalDone ==
    /\ pc = "h_free"
    /\ imIn.type = "UINT8" /\ imIn.bands = 3

\* row col of the tables of the horizontal path is the window and the coefficients
\* that the vertical path computes for row col
SameCoeffs(col, row) ==
    /\ xbounds[2 * col] = row.min
    /\ xbounds[2 * col + 1] = row.max
    /\ \A j \in 0 .. (row.max - row.min - 1) :
          /\ intkk[col * kmax + j] = row.intk[j]
          /\ kk[col * kmax + j] = row.k[j]

\* C8 (Axis-path equivalence): when the horizontal path has stretched an 8-bit
\* 3-band image, the transposed call takes the vertical path, every row of kk, intkk
\* and xbounds is what the vertical path computes for that row of the transposed
\* image, and the destination is the transpose of the vertical stretch of the
\* transposed image.
C8_AxisEquivalence ==
    HorizontalDone =>
        /\ StretchAxis(Transpose(imIn), Transpose(imOut0)) = "y"
        /\ \A col \in 0 .. (imOut.xsize - 1) :
              SameCoeffs(col, VerticalCoeffs(Transpose(imIn), Transpose(imOut0), filterp,
                                             FilterScale(Scale(imIn.xsize, imOut.xsize)),
                                             col))
        /\ imOut.image
             = TransposeRows(VerticalStretch(Transpose(imIn), Transpose(imOut0), filterp,
                                             FilterScale(Scale(imIn.xsize, imOut.xsize))),
                             imOut.ysize, imOut.xsize)

\* C8: the horizontal path has stretched a row of two colours to two or more
\* pixels that differ
C8_HorizontalStretched ==
    /\ HorizontalDone
    /\ imIn.xsize >= 2 /\ imOut.xsize >= 2
    /\ imIn.image[0][0] # imIn.image[0][4]
    /\ imOut.image[0][0] # imOut.image[0][4]

\* a window min .. max - 1 that is written at base into a buffer of size elements
WindowOK(lo, hi, srcLen, base, size) ==
    /\ 0 <= lo /\ lo < hi /\ hi <= srcLen
    /\ hi - lo <= kmax
    /\ 0 <= base /\ base + (hi - lo) <= size

\* the number of elements of a buffer that is indexed from 0
Size(buf) == Cardinality(DOMAIN buf)

\* C10 (Window bounds): every computed window has 0 <= min < max <= the source
\* length and at most kmax taps, and the coefficients written for it lie inside k
\* and intk, or inside the row of kk and intkk of its column.
C10_WindowBounds ==
    /\ VerticalRowDone =>
          /\ WindowOK(ymin, ymax, imIn.ysize, 0, Size(intk))
          /\ Size(intk) = kmax /\ Size(k) = kmax
    /\ \A col \in 0 .. (ColsDone - 1) :
          /\ WindowOK(xbounds[2 * col], xbounds[2 * col + 1], imIn.xsize, col * kmax,
                      (col + 1) * kmax)
          /\ Size(intkk) = imOut.xsize * kmax /\ Size(kk) = imOut.xsize * kmax

\* C10: a row has been computed whose window has kmax taps and does not start at
\* the first source row
C10_FullWindow ==
    /\ VerticalRowDone
    /\ ymin > 0
    /\ ymax - ymin = kmax

====
